---- MODULE Spec2Model ----
(***************************************************************************)
(* A state-machine model of GaussianProcess (src/src/gaussian_process.py): *)
(* construction, the minibatch training loop of fit(X, y) and the reads of *)
(* predict(X).  Rows of the caller's arrays are abstract tokens            *)
(* <<"x", c, k>> and <<"y", c, k>> (row k of the arrays handed to the c-th *)
(* fit call); parameter values are small integers, with NaNv standing for  *)
(* a non-finite value and Uninit for an uninitialised TensorFlow variable. *)
(***************************************************************************)
EXTENDS Integers, Sequences, FiniteSets

\* ---- bounds of the model ----
MaxN == 3
MaxBatch == 2
MaxEpochs == 2
MaxFits == 2
\* rows per call where several fit calls follow each other
MaxFitRows == 2

\* ---- abstract values ----
NaNv == 0 - 1
Uninit == 0 - 2
\* finite values a float32 parameter takes in the model
Params == {0, 1}
\* values of n_dim the model is constructed with
Dims == {2}

\* noise=0.0, the constructor's default (line 27), fed to tf.Variable (line 58)
InitNoise == 0
\* init_amp=1. handed to the kernel by both drivers (lines 170, 218)
InitAmp == 1
\* init_scale_range=(.1,.2): the kernel draws its initial length scales from a
\* range (lines 169, 217)
InitScaleRange == {0, 1}

VARIABLES
  n_dim, n_epochs, batch_size, train_noise,   \* settings saved by __init__
  length_scales, noise, amp,                  \* TensorFlow variables of the session
  attrs, K_invf, Xf, yf,                      \* instance attributes written by fit
  pc, X, y, cols, n_samples, n_batches, i, j, \* the running fit call: position and locals
  limit,                                      \* how many fit calls, of how many rows, the caller makes
  calls, shuffles, steps, invRuns, fed, lastStep, pre, lastOk, okFits, \* history of the run
  fitResult, predOut                          \* what the last fit / predict call gave

vars == <<n_dim, n_epochs, batch_size, train_noise, length_scales, noise, amp,
          attrs, K_invf, Xf, yf, pc, X, y, cols, n_samples, n_batches, i, j,
          limit, calls, shuffles, steps, invRuns, fed, lastStep, pre, lastOk,
          okFits, fitResult, predOut>>

config == <<n_dim, n_epochs, batch_size, train_noise, limit>>
tfvars == <<length_scales, noise, amp>>
fitted == <<attrs, K_invf, Xf, yf>>
locals == <<X, y, cols, n_samples, n_batches, i, j>>
counters == <<calls, shuffles, steps, invRuns, lastStep, pre, lastOk, okFits>>
history == <<counters, fed>>

\* ---- helpers ----
Min(a, b) == IF a < b THEN a ELSE b

\* numpy basic slicing arr[a:b], 0-based, clipped to the array
Slice(arr, a, b) == SubSeq(arr, a + 1, Min(b, Len(arr)))

\* np.random.permutation(n): the permutations of the n row indices
permutation(n) == {p \in [1..n -> 1..n] : \A a, b \in 1..n : p[a] = p[b] => a = b}

\* numpy integer-array indexing arr[shuffle]
Take(arr, p) == [k \in 1..Len(arr) |-> arr[p[k]]]

\* the arrays a caller hands to the c-th fit call, n rows
CallerX(c, n) == [k \in 1..n |-> <<"x", c, k>>]
CallerY(c, n) == [k \in 1..n |-> <<"y", c, k>>]

\* value of the K_inv tensor: the inverse of K built over the fed rows with
\* the current kernel parameters and noise
KInv(rows, ls, nz, a, fin) ==
  [rows |-> rows, ls |-> ls, noise |-> nz, amp |-> a, finite |-> fin]
NoKInv == KInv(<<>>, Uninit, Uninit, Uninit, FALSE)

NoPred == [status |-> "none", covs |-> 0, matmuls |-> 0, K_invf |-> NoKInv,
           Xf |-> <<>>, yf |-> <<>>, amp |-> Uninit, nan |-> FALSE, of |-> 0]

NoPre == [ls |-> Uninit, noise |-> Uninit, amp |-> Uninit, attrs |-> {},
          K_invf |-> NoKInv, Xf |-> <<>>, yf |-> <<>>]

\* ---- __init__ ----

\* variant: __init__ presets the three attributes
InitAttrs_preset == {"K_invf", "Xf", "yf"}

\* lines 55-95: __init__ assigns none of K_invf, Xf, yf
InitAttrs == {}

Constructed(fits, rows) ==
  /\ limit = [fits |-> fits, rows |-> rows]
  /\ n_dim \in Dims
  /\ n_epochs \in 0..MaxEpochs
  /\ batch_size \in 0..MaxBatch
  /\ train_noise \in BOOLEAN
  /\ length_scales = Uninit /\ noise = Uninit /\ amp = Uninit
  /\ attrs = InitAttrs /\ K_invf = NoKInv /\ Xf = <<>> /\ yf = <<>>
  /\ pc = "idle" /\ X = <<>> /\ y = <<>> /\ cols = 0
  /\ n_samples = 0 /\ n_batches = 0 /\ i = 0 /\ j = 0
  /\ calls = 0 /\ shuffles = 0 /\ steps = 0 /\ invRuns = 0 /\ fed = <<>>
  /\ lastStep = [ls |-> Uninit, noise |-> Uninit] /\ pre = NoPre /\ lastOk = 0 /\ okFits = 0
  /\ fitResult = "none" /\ predOut = NoPred

\* one fit call on a fresh model, up to MaxN rows
Init == Constructed(1, MaxN)

\* up to MaxFits fit calls on one model, up to MaxFitRows rows each
InitLife == Constructed(MaxFits, MaxFitRows)

\* ---- fit(X, y) ----

\* variant: the batch count rounded up
NBatches_ceil(n, b) == (n + b - 1) \div b

\* line 111: n_batches = n_samples/self.batch_size (Python 2 integer division)
NBatches(n, b) == n \div b

\* variant: one epoch more than n_epochs
MoreEpochs_inclusive(ii, n) == ii <= n

\* line 112: for i in xrange(self.n_epochs)
MoreEpochs(ii, n) == ii < n

\* variant: y is left in its old order
ShuffledY_unshuffled(arr, p) == arr

\* line 116: y = y[shuffle]
ShuffledY(arr, p) == Take(arr, p)

\* variant: the noise is trained whatever train_noise says
VarList_all(tn) == {"length_scales", "noise"}

\* lines 86-88: the parameters the train operation updates
VarList(tn) == {"length_scales"} \cup (IF tn THEN {"noise"} ELSE {})

\* variant: K_inv is fed the last minibatch
FinalFeed_lastBatch(arr) ==
  Slice(arr, (n_batches - 1) * batch_size, n_batches * batch_size)

\* line 125: the rows fed to K_inv after the last epoch
FinalFeed(arr) == arr

\* variant: yf is assigned only when the model has none yet
StoreFitted_keepY(old, kinv, Xw, yw) ==
  [attrs |-> old.attrs \cup {"K_invf", "Xf", "yf"}, K_invf |-> kinv, Xf |-> Xw,
   yf |-> IF "yf" \in old.attrs THEN old.yf ELSE yw]

\* variant: K_invf is assigned only when the model has none yet
StoreFitted_keepKinv(old, kinv, Xw, yw) ==
  [attrs |-> old.attrs \cup {"K_invf", "Xf", "yf"},
   K_invf |-> IF "K_invf" \in old.attrs THEN old.K_invf ELSE kinv, Xf |-> Xw, yf |-> yw]

\* lines 125-127: the three attributes fit assigns, given the ones it had
StoreFitted(old, kinv, Xw, yw) ==
  [attrs |-> old.attrs \cup {"K_invf", "Xf", "yf"}, K_invf |-> kinv, Xf |-> Xw, yf |-> yw]

\* the placeholders' static shape [None, n_dim] (line 67): a fed array with
\* another column count is rejected by the session before anything runs
FeedAccepted(c) == c = n_dim

\* the caller enters fit: X, y are bound to the caller's arrays
FitCall ==
  /\ pc = "idle" /\ calls < limit.fits
  /\ \E n \in 1..limit.rows, c \in {n_dim, n_dim + 1} :
       /\ X' = CallerX(calls + 1, n)
       /\ y' = CallerY(calls + 1, n)
       /\ cols' = c
       /\ n_samples' = n
  /\ calls' = calls + 1
  /\ pre' = [ls |-> length_scales, noise |-> noise, amp |-> amp, attrs |-> attrs,
             K_invf |-> K_invf, Xf |-> Xf, yf |-> yf]
  /\ shuffles' = 0 /\ steps' = 0 /\ invRuns' = 0 /\ fed' = <<>>
  /\ lastStep' = [ls |-> Uninit, noise |-> Uninit]
  /\ n_batches' = 0 /\ i' = 0 /\ j' = 0
  /\ fitResult' = "running"
  /\ pc' = "init"
  /\ predOut' = NoPred
  /\ UNCHANGED <<config, tfvars, fitted, lastOk, okFits>>

\* the call is left by an exception: the arrays it worked on are gone, the
\* attributes stay
Raise(err) ==
  /\ fitResult' = err
  /\ pc' = "idle"
  /\ X' = <<>> /\ y' = <<>> /\ fed' = <<>>
  /\ UNCHANGED <<config, fitted, cols, n_samples, n_batches, i, j, predOut>>

\* lines 108-111 with a batch size of 0: the variables are initialised, then
\* the division raises
InitVarsZeroDivision ==
  /\ pc = "init" /\ batch_size = 0
  /\ \E l \in InitScaleRange : length_scales' = l
  /\ noise' = InitNoise /\ amp' = InitAmp
  /\ Raise("ZeroDivisionError")
  /\ UNCHANGED counters

\* lines 108-111: every variable of the graph goes back to its initial value
InitVars ==
  /\ pc = "init" /\ batch_size > 0
  /\ \E l \in InitScaleRange :
       /\ length_scales' = l
       /\ lastStep' = [ls |-> l, noise |-> InitNoise]
  /\ noise' = InitNoise /\ amp' = InitAmp
  /\ n_batches' = NBatches(n_samples, batch_size)
  /\ i' = 0 /\ j' = 0
  /\ pc' = "epoch"
  /\ UNCHANGED <<config, fitted, X, y, cols, n_samples, calls, shuffles, steps,
                 invRuns, fed, pre, lastOk, okFits, fitResult, predOut>>

\* lines 112-116: one permutation, applied to X and to y
Shuffle ==
  /\ pc = "epoch" /\ MoreEpochs(i, n_epochs)
  /\ \E shuffle \in permutation(n_samples) :
       /\ X' = Take(X, shuffle)
       /\ y' = ShuffledY(y, shuffle)
  /\ shuffles' = shuffles + 1
  /\ fed' = <<>>
  /\ j' = 0
  /\ pc' = "batch"
  /\ UNCHANGED <<config, tfvars, fitted, cols, n_samples, n_batches, i, calls,
                 steps, invRuns, lastStep, pre, lastOk, okFits, fitResult, predOut>>

\* one parameter after an optimizer step: replaced when the train operation
\* lists it (line 89), left alone otherwise
Stepped(name, old, new) == IF name \in VarList(train_noise) THEN new ELSE old

Finite(v) == v \in Params

\* lines 119-120: the minibatch of step jj
MiniBatch(arr, jj) == Slice(arr, jj * batch_size, (jj + 1) * batch_size)

\* line 122 with an array of the wrong column count
TrainStepShapeError ==
  /\ pc = "batch" /\ j < n_batches
  /\ ~FeedAccepted(cols)
  /\ Raise("ValueError")
  /\ UNCHANGED <<tfvars, counters>>

\* lines 117-123: one optimizer step on minibatch j, K well conditioned
TrainStep ==
  /\ pc = "batch" /\ j < n_batches
  /\ FeedAccepted(cols)
  /\ Finite(length_scales) /\ Finite(noise)
  /\ \E l \in Params, z \in Params :
       /\ length_scales' = Stepped("length_scales", length_scales, l)
       /\ noise' = Stepped("noise", noise, z)
       /\ amp' = Stepped("amp", amp, l)
  /\ lastStep' = [ls |-> length_scales', noise |-> noise']
  /\ fed' = Append(fed, [X |-> MiniBatch(X, j), y |-> MiniBatch(y, j)])
  /\ steps' = steps + 1
  /\ j' = j + 1
  /\ UNCHANGED <<config, fitted, pc, X, y, cols, n_samples, n_batches, i, calls,
                 shuffles, invRuns, pre, lastOk, okFits, fitResult, predOut>>

\* lines 78, 122: K of the minibatch is singular and matrix_inverse reports it
TrainStepRaises ==
  /\ pc = "batch" /\ j < n_batches
  /\ FeedAccepted(cols)
  /\ Raise("InvalidArgumentError")
  /\ UNCHANGED <<tfvars, calls, shuffles, steps, invRuns, lastStep, pre, lastOk, okFits>>

\* lines 78-84, 122: K of the minibatch is singular or not positive definite
\* and nothing reports it: log(det K) and the gradients are not finite, and
\* the step writes them into the listed parameters
TrainStepSilent ==
  /\ pc = "batch" /\ j < n_batches
  /\ FeedAccepted(cols)
  /\ length_scales' = Stepped("length_scales", length_scales, NaNv)
  /\ noise' = Stepped("noise", noise, NaNv)
  /\ amp' = Stepped("amp", amp, NaNv)
  /\ lastStep' = [ls |-> length_scales', noise |-> noise']
  /\ fed' = Append(fed, [X |-> MiniBatch(X, j), y |-> MiniBatch(y, j)])
  /\ steps' = steps + 1
  /\ j' = j + 1
  /\ UNCHANGED <<config, fitted, pc, X, y, cols, n_samples, n_batches, i, calls,
                 shuffles, invRuns, pre, lastOk, okFits, fitResult, predOut>>

\* line 117: xrange(n_batches) is exhausted, back to line 112
EndEpoch ==
  /\ pc = "batch" /\ j >= n_batches
  /\ i' = i + 1
  /\ pc' = "epoch"
  /\ UNCHANGED <<config, tfvars, fitted, X, y, cols, n_samples, n_batches, j,
                 history, fitResult, predOut>>

\* line 125 with an array of the wrong column count (no step ran before)
FinishShapeError ==
  /\ pc = "epoch" /\ ~MoreEpochs(i, n_epochs)
  /\ ~FeedAccepted(cols)
  /\ Raise("ValueError")
  /\ UNCHANGED <<tfvars, counters>>

\* line 125: K of the whole set is singular and matrix_inverse reports it
FinishRaises ==
  /\ pc = "epoch" /\ ~MoreEpochs(i, n_epochs)
  /\ FeedAccepted(cols)
  /\ invRuns' = invRuns + 1
  /\ Raise("InvalidArgumentError")
  /\ UNCHANGED <<tfvars, calls, shuffles, steps, lastStep, pre, lastOk, okFits>>

\* lines 125-127, fit returns: fin tells whether the inverse came out finite
Return(fin) ==
  /\ pc = "epoch" /\ ~MoreEpochs(i, n_epochs)
  /\ FeedAccepted(cols)
  /\ LET old == [attrs |-> attrs, K_invf |-> K_invf, Xf |-> Xf, yf |-> yf]
         new == StoreFitted(old, KInv(FinalFeed(X), length_scales, noise, amp, fin), X, y)
     IN /\ attrs' = new.attrs
        /\ K_invf' = new.K_invf
        /\ Xf' = new.Xf
        /\ yf' = new.yf
  /\ invRuns' = invRuns + 1
  /\ lastOk' = calls
  /\ okFits' = okFits + 1
  /\ fitResult' = "ok"
  /\ pc' = "idle"
  /\ X' = <<>> /\ y' = <<>> /\ fed' = <<>>
  /\ pre' = NoPre
  /\ UNCHANGED <<config, tfvars, cols, n_samples, n_batches, i, j, calls,
                 shuffles, steps, lastStep, predOut>>

\* lines 124-127: K of the whole set is well conditioned
FitFinish ==
  /\ Finite(length_scales) /\ Finite(noise)
  /\ Return(TRUE)

\* lines 124-127: K of the whole set is singular or holds non-finite entries
\* and matrix_inverse returns a matrix all the same
FitFinishSilent == Return(FALSE)

\* ---- predict(X) ----

\* lines 144-156: the attribute reads of predict in program order; a missing
\* attribute raises AttributeError at its read
Predict ==
  /\ pc = "idle"
  /\ predOut' =
       IF "Xf" \notin attrs
       THEN [NoPred EXCEPT !.status = "AttributeError"]
       ELSE IF "K_invf" \notin attrs
       THEN [NoPred EXCEPT !.status = "AttributeError", !.covs = 1]
       ELSE IF "yf" \notin attrs
       THEN [NoPred EXCEPT !.status = "AttributeError", !.covs = 1, !.matmuls = 1]
       ELSE [status |-> "ok", covs |-> 1, matmuls |-> 2, K_invf |-> K_invf,
             Xf |-> Xf, yf |-> yf, amp |-> amp,
             nan |-> ~K_invf.finite \/ ~Finite(length_scales) \/ ~Finite(amp),
             of |-> lastOk]
  /\ UNCHANGED <<config, tfvars, fitted, pc, locals, history, fitResult>>

Fit ==
  \/ FitCall
  \/ InitVarsZeroDivision
  \/ InitVars
  \/ Shuffle
  \/ TrainStepShapeError
  \/ TrainStep
  \/ TrainStepRaises
  \/ TrainStepSilent
  \/ EndEpoch
  \/ FinishShapeError
  \/ FinishRaises
  \/ FitFinish
  \/ FitFinishSilent

Next == Fit \/ Predict

Spec == Init /\ [][Next]_vars

SpecLife == InitLife /\ [][Next]_vars

\* a fit call that was entered runs on: fit is synchronous and single-threaded
FitRun ==
  \/ InitVarsZeroDivision \/ InitVars \/ Shuffle \/ TrainStepShapeError \/ TrainStep
  \/ TrainStepRaises \/ TrainStepSilent \/ EndEpoch \/ FinishShapeError
  \/ FinishRaises \/ FitFinish \/ FitFinishSilent

FairSpec == Init /\ [][Next]_vars /\ WF_vars(FitRun)

\* ---- properties ----

\* a[k] and b[k] are the x and the y of one row of the caller's arrays
Paired(a, b) ==
  /\ Len(a) = Len(b)
  /\ \A k \in 1..Len(a) :
       a[k][1] = "x" /\ b[k][1] = "y" /\ a[k][2] = b[k][2] /\ a[k][3] = b[k][3]

\* a holds every element of orig exactly once
IsPermutationOf(a, orig) ==
  /\ Len(a) = Len(orig)
  /\ \A k \in 1..Len(orig) : Cardinality({m \in 1..Len(a) : a[m] = orig[k]}) = 1

\* every row of arr comes from the arrays of fit call c
FromCall(arr, c) == \A k \in 1..Len(arr) : arr[k][2] = c

InEpochs == pc \in {"epoch", "batch"} /\ shuffles > 0

\* C1: in every epoch exactly floor(N / B) steps are performed; step k is fed
\* the B contiguous rows (k-1)*B+1 .. k*B (1-based) of the epoch's shuffled
\* order, so no row is fed twice in an epoch and the last N mod B rows of the
\* shuffled order are fed to no step.
C1_MinibatchPartition ==
  (InEpochs /\ batch_size >= 1) =>
    LET B == batch_size
        full == n_samples \div batch_size
    IN /\ Len(fed) <= full
       /\ (pc = "epoch" => Len(fed) = full)
       /\ \A k \in 1..Len(fed) :
            /\ Len(fed[k].X) = B /\ Len(fed[k].y) = B
            /\ \A m \in 1..B : /\ fed[k].X[m] = X[(k - 1) * B + m]
                               /\ fed[k].y[m] = y[(k - 1) * B + m]
       /\ \A k1, k2 \in 1..Len(fed) : \A m1, m2 \in 1..B :
            fed[k1].X[m1] = fed[k2].X[m2] => (k1 = k2 /\ m1 = m2)
       /\ \A r \in (full * B + 1)..n_samples :
            \A k \in 1..Len(fed) : \A m \in 1..B : fed[k].X[m] # X[r]

\* an epoch of 3 rows in batches of 2 is over: one step ran, one row was left out
C1_Witness ==
  /\ pc = "epoch" /\ shuffles > 0
  /\ n_samples = 3 /\ batch_size = 2 /\ Len(fed) = 1 /\ steps = shuffles

\* C2: at every point of fit the working X and y are one and the same
\* permutation of the caller's arrays (row k of X is paired with row k of y,
\* every caller's pair is there exactly once), and so is every minibatch.
C2_JointShuffle ==
  (pc \in {"init", "epoch", "batch"}) =>
    /\ Paired(X, y)
    /\ IsPermutationOf(X, CallerX(calls, n_samples))
    /\ IsPermutationOf(y, CallerY(calls, n_samples))
    /\ \A k \in 1..Len(fed) : Paired(fed[k].X, fed[k].y)

\* the second shuffle is done, a step of its epoch ran, the order is not the caller's
C2_Witness ==
  /\ pc = "batch" /\ shuffles = 2 /\ Len(fed) >= 1
  /\ n_samples = 3 /\ X # CallerX(calls, n_samples)

\* C3: fit never starts more than n_epochs epochs nor more than floor(N / B)
\* steps in one, a fit that returns has done exactly n_epochs shuffles and
\* n_epochs * floor(N / B) steps whatever the steps produced, and a fit call
\* that was entered comes to its end.
C3_Counts ==
  /\ (pc # "idle" /\ batch_size >= 1) =>
       /\ shuffles <= n_epochs
       /\ steps <= n_epochs * (n_samples \div batch_size)
  /\ (fitResult = "ok") =>
       /\ batch_size >= 1
       /\ shuffles = n_epochs
       /\ steps = n_epochs * (n_samples \div batch_size)

C3_ExactEpochs == []C3_Counts /\ ((pc # "idle") ~> (pc = "idle"))

\* a fit of two epochs of two steps each has returned
C3_Witness ==
  fitResult = "ok" /\ n_epochs = 2 /\ shuffles = 2 /\ steps = 4

\* C4: the Fitted State is written only when fit returns, after the last
\* step: the inverse is evaluated once, with the parameters the last step
\* left, over all N rows, and Xf and yf hold all N rows; also when no step ran.
C4_FullSetFittedState ==
  /\ (fitResult = "running") => (attrs = {} /\ invRuns = 0)
  /\ (fitResult = "ok") =>
       /\ attrs = {"K_invf", "Xf", "yf"}
       /\ invRuns = 1
       /\ steps = n_epochs * n_batches
       /\ K_invf.ls = lastStep.ls /\ K_invf.noise = lastStep.noise
       /\ IsPermutationOf(K_invf.rows, CallerX(calls, n_samples))
       /\ IsPermutationOf(Xf, CallerX(calls, n_samples))
       /\ IsPermutationOf(yf, CallerY(calls, n_samples))

\* a fit of 3 rows in batches of 2 has returned: the row no step saw is in the inverse
C4_Witness ==
  /\ fitResult = "ok" /\ n_samples = 3 /\ batch_size = 2 /\ steps >= 1
  /\ Len(K_invf.rows) = 3 /\ K_invf.finite

\* a fit in which no step ran has returned with its Fitted State
C4_WitnessNoStep ==
  fitResult = "ok" /\ n_epochs >= 1 /\ n_batches = 0 /\ Len(Xf) = n_samples

\* C9: an optimizer step leaves the amplitude alone, and the noise too unless
\* train_noise is set; after a fit the amplitude has its initial value, and so
\* has the noise when train_noise is off; predict reads the amplitude.
C9_StepFrame ==
  (pc = "batch" /\ pc' = "batch" /\ steps' = steps + 1) =>
    /\ amp' = amp
    /\ (~train_noise => noise' = noise)

C9_AfterFit ==
  /\ (fitResult = "ok") =>
       /\ amp = InitAmp
       /\ (~train_noise => noise = InitNoise)
  /\ (predOut.status = "ok") => predOut.amp = InitAmp

AllThree == {"K_invf", "Xf", "yf"}

\* C5: predict leaves K_invf, Xf and yf as they are; a fit that returns
\* replaces all three, so that the three always come from the most recent fit
\* call that returned and every predict reads those and nothing from an
\* earlier call.
C5_PredictFrame ==
  (pc = "idle" /\ pc' = "idle") => UNCHANGED <<attrs, K_invf, Xf, yf>>

C5_LastFit ==
  /\ (fitResult = "ok") => lastOk = calls
  /\ (lastOk > 0) =>
       /\ attrs = AllThree
       /\ FromCall(K_invf.rows, lastOk) /\ FromCall(Xf, lastOk) /\ FromCall(yf, lastOk)
  /\ (predOut.status = "ok") =>
       /\ predOut.of = lastOk
       /\ predOut.K_invf = K_invf /\ predOut.Xf = Xf /\ predOut.yf = yf
       /\ FromCall(predOut.K_invf.rows, lastOk)
       /\ FromCall(predOut.Xf, lastOk) /\ FromCall(predOut.yf, lastOk)

C5_LastFitWins == [][C5_PredictFrame]_vars /\ []C5_LastFit

\* two fits returned, and predict read the Fitted State of the second
C5_Witness ==
  okFits = 2 /\ lastOk = 2 /\ predOut.status = "ok" /\ FromCall(predOut.yf, 2)

\* C6: as long as no fit has returned, the model has none of K_invf, Xf, yf
\* and predict ends in AttributeError before any covariance or matrix product.
C6_PredictBeforeFit ==
  (lastOk = 0) =>
    /\ attrs = {}
    /\ predOut.status \in {"none", "AttributeError"}
    /\ predOut.covs = 0 /\ predOut.matmuls = 0

\* predict was called after a fit call that failed, on a model never fitted
C6_Witness ==
  /\ lastOk = 0 /\ calls = 1 /\ fitResult = "InvalidArgumentError"
  /\ predOut.status = "AttributeError"

\* C7: a fit call with the wrong column count fails before the variables are
\* reinitialized and before any shuffle: the parameters, the noise and the
\* Fitted State are after the call what they were before it.
C7_NoPartialExecution ==
  (fitResult = "ValueError") =>
    /\ shuffles = 0
    /\ length_scales = pre.ls /\ noise = pre.noise /\ amp = pre.amp
    /\ attrs = pre.attrs /\ K_invf = pre.K_invf /\ Xf = pre.Xf /\ yf = pre.yf

\* C8: a fit that returns normally left finite parameters and a finite cached
\* inverse, and predict returns no pair computed from non-finite values.
C8_ExplicitNumericalFailure ==
  /\ (fitResult = "ok") =>
       /\ Finite(length_scales) /\ Finite(noise) /\ K_invf.finite
  /\ (predOut.status = "ok") => ~predOut.nan

\* C10: in every state, also inside a fit call and after one that failed,
\* either none of K_invf, Xf, yf exists or all three do and they belong
\* together: K_invf was built over the rows of Xf in the order of Xf, yf[k] is
\* the response of Xf[k], and all come from one fit call.
C10_FittedStateConsistent ==
  /\ attrs \in {{}, AllThree}
  /\ (attrs = AllThree) =>
       /\ K_invf.rows = Xf
       /\ Paired(Xf, yf)
       /\ \E c \in 1..calls :
            FromCall(K_invf.rows, c) /\ FromCall(Xf, c) /\ FromCall(yf, c)

\* the second fit call failed after its shuffle; the Fitted State of the first
\* is there, in an order that is not the caller's
C10_Witness ==
  /\ calls = 2 /\ lastOk = 1 /\ shuffles >= 1
  /\ fitResult \in {"ValueError", "InvalidArgumentError"}
  /\ attrs = AllThree /\ Len(Xf) = 2 /\ Xf # CallerX(1, 2)

====
